---- MODULE Spec2Model ----
(***************************************************************************)
(* Edge-motif extraction for Eternity II tiles.                            *)
(*                                                                         *)
(* Two programs are modelled:                                              *)
(*   extract_pieces.py                 (cluster mode,   suffix-free names) *)
(*   extract_pieces_with_templates.py  (reference mode, names ending _t)   *)
(*                                                                         *)
(* Numbers.  numpy computes signatures in floating point.  The model keeps *)
(* every signature component as an integer count of 1/Scale units          *)
(* (fixed point, rounded down), and compares squared Euclidean distances,  *)
(* which order exactly as the distances do.                                *)
(*                                                                         *)
(* Strings.  File names are sequences of character codes, so that          *)
(* sorted(), str.replace(), str.endswith() and int() are computed on the   *)
(* characters as Python computes them.                                     *)
(***************************************************************************)
EXTENDS Integers, Sequences, FiniteSets, TLC

VARIABLES
    pc,                \* position in the program
    img,               \* SpecExtract: the encoded image under test
    masks,             \* SpecExtract: program -> result of extract_triangle_regions
    sigs,              \* program -> direction -> signature of the image at hand
    directory,         \* the tile directory: file name -> encoded content
    image_files,       \* sorted list of the .png names
    idx,               \* position of the loop over image_files
    all_signatures,    \* cluster mode: [(piece_id, direction, signature), ...]
    k,                 \* cluster mode: position of the loop over all_signatures
    pattern_clusters,  \* cluster mode: list of clusters, each a list of members
    pattern_mapping,   \* cluster mode: (piece_id, direction) -> cluster id
    formes,            \* reference mode: FORMES_DIR, form id -> encoded content
    reference_signatures,  \* reference mode: [(form_id, signature), ...] as inserted
    pieces_data,       \* piece_id -> its four pattern values (N, E, S, W)
    output             \* the lines of the output file, once written

extractVars == <<img, masks, sigs>>

dirVars == <<directory, image_files, idx>>

clusterVars == <<all_signatures, k, pattern_clusters, pattern_mapping>>

refVars == <<formes, reference_signatures>>

outVars == <<pieces_data, output>>

vars == <<pc, extractVars, dirVars, clusterVars, refVars, outVars>>

-----------------------------------------------------------------------------
(* Bounds of the model *)

\* largest image height and width drawn for the single-image specification
MaxDim == 8

\* largest number of files in the tile directory
MaxFiles == 2

\* fixed-point resolution: a signature component x is held as floor(x * Scale)
Scale == 1000

-----------------------------------------------------------------------------
(* Values shared by both programs *)

\* Python's None where a signature is expected: no signature is empty
None == <<>>

Directions == <<"N", "E", "S", "W">>

DirSet == {"N", "E", "S", "W"}

\* RGB triples of the colours the test images are painted with
RGB(col) ==
    CASE col = "black"  -> <<0, 0, 0>>
      [] col = "dusk"   -> <<40, 20, 20>>      \* R+G+B = 80
      [] col = "dawn"   -> <<41, 20, 20>>      \* R+G+B = 81
      [] col = "red200" -> <<200, 30, 30>>
      [] col = "red215" -> <<215, 30, 30>>
      [] col = "red221" -> <<221, 30, 30>>
      [] col = "blue"   -> <<30, 30, 200>>
      [] col = "gray"   -> <<128, 128, 128>>

Colours == {"black", "dusk", "dawn", "red200", "red215", "red221", "blue", "gray"}

\* Which painted triangle of an h x w tile the pixel (r, c) lies in; the
\* two 45-degree lines through the corners are the black separator.
FaceOf(h, r, c) ==
    IF r = c \/ r + c = h - 1 THEN "X"
    ELSE IF r < c /\ r + c < h - 1 THEN "N"
    ELSE IF r < c THEN "E"
    ELSE IF r + c > h - 1 THEN "S"
    ELSE "W"

\* An encoded tile picture: four painted triangles, optionally with every
\* other pixel blacked out (dots).
Picture(h, w, n, e, s, wst, dots) ==
    [height |-> h, width |-> w, faces |-> [N |-> n, E |-> e, S |-> s, W |-> wst],
     dots |-> dots]

Corrupt == [height |-> 0, width |-> 0, faces |-> [N |-> "black", E |-> "black",
            S |-> "black", W |-> "black"], dots |-> FALSE]

NoMasks == [N |-> {}, E |-> {}, S |-> {}, W |-> {}]

NoSigs == [d \in DirSet |-> None]

Coords(h, w) == (0 .. h - 1) \X (0 .. w - 1)

\* load_image: decode to an RGB array [height, width, px]
load_image(file) ==
    [height |-> file.height, width |-> file.width,
     px |-> [rc \in Coords(file.height, file.width) |->
                LET f == FaceOf(file.height, rc[1], rc[2]) IN
                IF f = "X" \/ (file.dots /\ (rc[1] + rc[2]) % 2 = 1)
                THEN RGB("black")
                ELSE RGB(file.faces[f])]]

load_image_t(file) == load_image(file)

-----------------------------------------------------------------------------
(* extract_triangle_regions -- extract_pieces.py *)

\* mutant: the horizontal boundary lies at a quarter of the height
center_y_quarter(a) == a.height \div 4

center_y(a) == a.height \div 2

center_x(a) == a.width \div 2

dist_to_main_diag(rc) == rc[1] - rc[2]

dist_to_anti_diag(a, rc) == rc[1] - (a.height - 1 - rc[2])

mask_north(a) ==
    {rc \in Coords(a.height, a.width) :
        /\ rc[1] < center_y(a)
        /\ dist_to_main_diag(rc) < 0
        /\ dist_to_anti_diag(a, rc) < 0}

\* mutant: the anti-diagonal test of the east triangle is forgotten
mask_east_no_anti(a) ==
    {rc \in Coords(a.height, a.width) :
        /\ rc[2] >= a.width \div 2
        /\ rc[1] - rc[2] < 0}

mask_east(a) ==
    {rc \in Coords(a.height, a.width) :
        /\ rc[2] >= center_x(a)
        /\ dist_to_main_diag(rc) < 0
        /\ dist_to_anti_diag(a, rc) > 0}

\* mutant: the main-diagonal test of the south triangle admits equality
mask_south_with_diag(a) ==
    {rc \in Coords(a.height, a.width) :
        /\ rc[1] >= a.height \div 2
        /\ rc[1] - rc[2] >= 0
        /\ rc[1] - (a.height - 1 - rc[2]) > 0}

mask_south(a) ==
    {rc \in Coords(a.height, a.width) :
        /\ rc[1] >= center_y(a)
        /\ dist_to_main_diag(rc) > 0
        /\ dist_to_anti_diag(a, rc) > 0}

mask_west(a) ==
    {rc \in Coords(a.height, a.width) :
        /\ rc[2] < center_x(a)
        /\ dist_to_main_diag(rc) > 0
        /\ dist_to_anti_diag(a, rc) < 0}

extract_triangle_regions(a) ==
    [N |-> mask_north(a), E |-> mask_east(a), S |-> mask_south(a), W |-> mask_west(a)]

(* extract_triangle_regions -- extract_pieces_with_templates.py *)

mask_north_t(a) ==
    {rc \in Coords(a.height, a.width) :
        /\ rc[1] < a.height \div 2
        /\ rc[1] - rc[2] < 0
        /\ rc[1] - (a.height - 1 - rc[2]) < 0}

mask_east_t(a) ==
    {rc \in Coords(a.height, a.width) :
        /\ rc[2] >= a.width \div 2
        /\ rc[1] - rc[2] < 0
        /\ rc[1] - (a.height - 1 - rc[2]) > 0}

mask_south_t(a) ==
    {rc \in Coords(a.height, a.width) :
        /\ rc[1] >= a.height \div 2
        /\ rc[1] - rc[2] > 0
        /\ rc[1] - (a.height - 1 - rc[2]) > 0}

\* mutant: the anti-diagonal test of the west triangle has the wrong sign
mask_west_t_sign_slip(a) ==
    {rc \in Coords(a.height, a.width) :
        /\ rc[2] < a.width \div 2
        /\ rc[1] - rc[2] > 0
        /\ rc[1] - (a.height - 1 - rc[2]) > 0}

mask_west_t(a) ==
    {rc \in Coords(a.height, a.width) :
        /\ rc[2] < a.width \div 2
        /\ rc[1] - rc[2] > 0
        /\ rc[1] - (a.height - 1 - rc[2]) < 0}

extract_triangle_regions_t(a) ==
    [N |-> mask_north_t(a), E |-> mask_east_t(a), S |-> mask_south_t(a),
     W |-> mask_west_t(a)]

-----------------------------------------------------------------------------
(* Arithmetic helpers for the numpy calls *)

RECURSIVE SumRange(_, _, _)
\* f[lo] + ... + f[hi], by halves
SumRange(f, lo, hi) ==
    IF lo > hi THEN 0
    ELSE IF lo = hi THEN f[lo]
    ELSE LET mid == (lo + hi) \div 2
         IN SumRange(f, lo, mid) + SumRange(f, mid + 1, hi)

\* np.sum of a vector
SumSeq(s) == SumRange(s, 1, Len(s))

\* np.sum(pixels[:, ch]) over the pixels at the coordinates in `pixels`
SumChannel(a, pixels, ch) ==
    LET at == [i \in 0 .. a.height * a.width - 1 |->
                 LET rc == <<i \div a.width, i % a.width>>
                 IN IF rc \in pixels THEN a.px[rc][ch] ELSE 0]
    IN SumRange(at, 0, a.height * a.width - 1)

\* np.sum(pixels[:, ch] ** 2)
SumSquares(a, pixels, ch) ==
    LET at == [i \in 0 .. a.height * a.width - 1 |->
                 LET rc == <<i \div a.width, i % a.width>>
                 IN IF rc \in pixels THEN a.px[rc][ch] * a.px[rc][ch] ELSE 0]
    IN SumRange(at, 0, a.height * a.width - 1)

RECURSIVE SqrtBetween(_, _, _)
SqrtBetween(n, lo, hi) ==
    IF lo >= hi THEN lo
    ELSE LET mid == (lo + hi + 1) \div 2
         IN IF mid * mid <= n THEN SqrtBetween(n, mid, hi)
            ELSE SqrtBetween(n, lo, mid - 1)

\* floor of the square root
ISqrt(n) == SqrtBetween(n, 0, 46340)

\* np.histogram(pixels[:, ch], bins=bins, range=(0, 256))[0]
histogram(a, pixels, ch, bins) ==
    [b \in 1 .. bins |->
        Cardinality({rc \in pixels : a.px[rc][ch] \div (256 \div bins) = b - 1})]

\* hist / (np.sum(hist) + 1e-10); the sum is at least 3 here, and 1e-10 is
\* far below the resolution 1/Scale
normalize(hist) ==
    LET total == SumSeq(hist)
    IN [i \in 1 .. Len(hist) |-> (hist[i] * Scale) \div total]

\* np.mean(pixels, axis=0) / 255.0
mean_color(a, pixels) ==
    [ch \in 1 .. 3 |->
        (SumChannel(a, pixels, ch) * Scale) \div (Cardinality(pixels) * 255)]

\* np.std(pixels, axis=0) / 255.0 (population standard deviation)
std_color(a, pixels) ==
    [ch \in 1 .. 3 |->
        LET n == Cardinality(pixels)
            s == SumChannel(a, pixels, ch)
        IN (ISqrt(n * SumSquares(a, pixels, ch) - s * s) * Scale) \div (n * 255)]

-----------------------------------------------------------------------------
(* extract_pattern_signature -- extract_pieces.py *)

\* img[mask]: the pixels at the coordinates the mask selects
pixels_at(a, mask) == {rc \in Coords(a.height, a.width) : rc \in mask}

\* if len(masked_pixels) == 0: return None
no_pixels(masked_pixels) == Cardinality(masked_pixels) = 0

signature_vector(a, pixels) ==
    LET hist_r == histogram(a, pixels, 1, 8)
        hist_g == histogram(a, pixels, 2, 8)
        hist_b == histogram(a, pixels, 3, 8)
        hist == normalize(hist_r \o hist_g \o hist_b)
    IN hist \o mean_color(a, pixels)

\* mutant: the signature does not depend on the pixels
extract_pattern_signature_blind(a, mask) ==
    IF no_pixels(pixels_at(a, mask)) THEN None ELSE [i \in 1 .. 27 |-> 0]

extract_pattern_signature(a, mask) ==
    LET masked_pixels == pixels_at(a, mask)
    IN IF no_pixels(masked_pixels) THEN None
       ELSE signature_vector(a, masked_pixels)

(* extract_pattern_signature -- extract_pieces_with_templates.py *)

\* brightness = np.sum(masked_pixels, axis=1), of one pixel
brightness(a, rc) == a.px[rc][1] + a.px[rc][2] + a.px[rc][3]

\* non_black_mask = brightness > 80
non_black(a, rc) == brightness(a, rc) > 80

\* colored_pixels = masked_pixels[non_black_mask]
colored_pixels_of(a, masked_pixels) == {rc \in masked_pixels : non_black(a, rc)}

\* mutant: only an empty coloured subset counts as too few
too_few_colored_only_empty(colored_pixels) == Cardinality(colored_pixels) = 0

\* if len(colored_pixels) < 10: return None
too_few_colored(colored_pixels) == Cardinality(colored_pixels) < 10

signature_vector_t(a, pixels) ==
    LET hist_r == histogram(a, pixels, 1, 32)
        hist_g == histogram(a, pixels, 2, 32)
        hist_b == histogram(a, pixels, 3, 32)
        hist == normalize(hist_r \o hist_g \o hist_b)
    IN hist \o mean_color(a, pixels) \o std_color(a, pixels)

extract_pattern_signature_t(a, mask) ==
    LET masked_pixels == pixels_at(a, mask)
        colored_pixels == colored_pixels_of(a, masked_pixels)
    IN IF Cardinality(masked_pixels) = 0 THEN None
       ELSE IF too_few_colored(colored_pixels) THEN None
       ELSE signature_vector_t(a, colored_pixels)

-----------------------------------------------------------------------------
(* File names and the string functions applied to them *)

DotPng == <<46, 112, 110, 103>>                    \* ".png"

TileNames ==
    { <<48, 49>> \o DotPng,                        \* "01.png"
      <<49>> \o DotPng,                            \* "1.png"
      <<57>> \o DotPng,                            \* "9.png"
      <<49, 48>> \o DotPng,                        \* "10.png"
      <<45, 49>> \o DotPng,                        \* "-1.png"
      <<49, 120, 52>> \o DotPng,                   \* "1x4.png"
      <<55, 46, 116, 120, 116>> }                  \* "7.txt"

\* s.endswith(suffix)
endswith(s, suffix) ==
    /\ Len(s) >= Len(suffix)
    /\ SubSeq(s, Len(s) - Len(suffix) + 1, Len(s)) = suffix

RECURSIVE replace_with_empty(_, _)
\* s.replace(old, ''): every occurrence of old is removed, left to right
replace_with_empty(s, old) ==
    IF Len(s) < Len(old) THEN s
    ELSE IF SubSeq(s, 1, Len(old)) = old
         THEN replace_with_empty(SubSeq(s, Len(old) + 1, Len(s)), old)
         ELSE <<Head(s)>> \o replace_with_empty(Tail(s), old)

RECURSIVE str_less(_, _)
\* s < t on Python strings: by code point, a proper prefix first
str_less(s, t) ==
    IF t = <<>> THEN FALSE
    ELSE IF s = <<>> THEN TRUE
    ELSE IF Head(s) # Head(t) THEN Head(s) < Head(t)
    ELSE str_less(Tail(s), Tail(t))

RECURSIVE sorted_descending(_)
\* mutant: the names come out in descending order
sorted_descending(names) ==
    IF names = {} THEN <<>>
    ELSE LET last == CHOOSE x \in names : \A y \in names \ {x} : str_less(y, x)
         IN <<last>> \o sorted_descending(names \ {last})

RECURSIVE sorted(_)
\* sorted(names) of distinct strings
sorted(names) ==
    IF names = {} THEN <<>>
    ELSE LET first == CHOOSE x \in names : \A y \in names \ {x} : str_less(x, y)
         IN <<first>> \o sorted(names \ {first})

RECURSIVE digits_value(_, _)
digits_value(s, acc) ==
    IF s = <<>> THEN acc ELSE digits_value(Tail(s), acc * 10 + (Head(s) - 48))

unsigned(s) == IF s # <<>> /\ Head(s) \in {43, 45} THEN Tail(s) ELSE s

\* whether int(s) returns (TRUE) or raises ValueError (FALSE), for strings of
\* digits, signs, letters and dots: an optional sign, then one or more digits
int_parses(s) ==
    /\ unsigned(s) # <<>>
    /\ \A i \in 1 .. Len(unsigned(s)) : unsigned(s)[i] \in 48 .. 57

\* mutant: the sign is dropped
int_magnitude(s) == digits_value(unsigned(s), 0)

\* int(s), where it parses
int(s) ==
    IF Head(s) = 45 THEN 0 - digits_value(unsigned(s), 0)
    ELSE digits_value(unsigned(s), 0)

RECURSIVE digits_of(_)
digits_of(n) ==
    IF n < 10 THEN <<48 + n>> ELSE digits_of(n \div 10) \o <<48 + (n % 10)>>

\* mutant: the minus sign is not written
str_unsigned(n) == IF n < 0 THEN digits_of(0 - n) ELSE digits_of(n)

\* f"{n}" of an integer
str(n) == IF n < 0 THEN <<45>> \o digits_of(0 - n) ELSE digits_of(n)

\* the empty dict
EmptyDict == [x \in {} |-> 0]

\* mutant: the value stored is one more than the value given
DictPut_shifted(d, key, value) ==
    [x \in DOMAIN d \cup {key} |-> IF x = key THEN value + 1 ELSE d[x]]

\* d[key] = value
DictPut(d, key, value) ==
    [x \in DOMAIN d \cup {key} |-> IF x = key THEN value ELSE d[x]]

\* d.get(key, default)
DictGet(d, key, default) == IF key \in DOMAIN d THEN d[key] ELSE default

\* image_files = sorted([f for f in os.listdir(image_dir) if f.endswith('.png')])
list_image_files(dir) == sorted({f \in DOMAIN dir : endswith(f, DotPng)})

\* mutant: no name is rejected
name_invalid_never(img_file) == FALSE

\* piece_id = int(img_file.replace('.png', '')) raises ValueError
name_invalid(img_file) == ~int_parses(replace_with_empty(img_file, DotPng))

piece_id_of(img_file) == int(replace_with_empty(img_file, DotPng))

-----------------------------------------------------------------------------
(* extract_pieces.py: compare_signatures, process_images, save_results *)

\* float('inf')
Infinity == 2147483647

\* the sum of the squared component differences of two vectors
SquaredDistance(s1, s2) ==
    SumSeq([i \in 1 .. Len(s1) |-> (s1[i] - s2[i]) * (s1[i] - s2[i])])

\* mutant: only the histogram part of the signatures is compared
compare_signatures_hist_only(sig1, sig2) ==
    IF sig1 = None \/ sig2 = None THEN Infinity
    ELSE SumSeq([i \in 1 .. 24 |-> (sig1[i] - sig2[i]) * (sig1[i] - sig2[i])])

\* np.linalg.norm(sig1 - sig2), squared; inf when a signature is None
compare_signatures(sig1, sig2) ==
    IF sig1 = None \/ sig2 = None THEN Infinity
    ELSE SquaredDistance(sig1, sig2)

\* threshold = 0.08
threshold == (8 * Scale) \div 100

\* mutant: a distance of zero is not below the threshold
below_threshold_positive(distance) ==
    distance > 0 /\ distance < threshold * threshold

\* distance < threshold, on the squared distance
below_threshold(distance) == distance < threshold * threshold

\* the encoded tiles the cluster-mode directories are filled with
ClusterTiles ==
    { Corrupt,
      Picture(2, 2, "red200", "red200", "red200", "red200", FALSE),
      Picture(2, 6, "blue", "blue", "blue", "blue", FALSE),
      Picture(4, 4, "red200", "red200", "red200", "red200", FALSE),
      Picture(4, 4, "red200", "red221", "red215", "blue", FALSE) }

Directories(names, tiles) ==
    UNION { [present -> tiles] :
              present \in {S \in SUBSET names : Cardinality(S) <= MaxFiles} }

IdleExtract ==
    /\ img = Corrupt
    /\ masks = [cluster |-> NoMasks, templates |-> NoMasks]
    /\ sigs = [cluster |-> NoSigs, templates |-> NoSigs]

InitCluster ==
    /\ pc = "listing"
    /\ directory = EmptyDict
    /\ image_files = <<>>
    /\ idx = 1
    /\ all_signatures = <<>>
    /\ k = 1
    /\ pattern_clusters = <<>>
    /\ pattern_mapping = EmptyDict
    /\ pieces_data = EmptyDict
    /\ output = <<>>
    /\ formes = EmptyDict
    /\ reference_signatures = <<>>
    /\ IdleExtract

\* line 106: the directory is read
ListImages ==
    /\ pc = "listing"
    /\ \E dir \in Directories(TileNames, ClusterTiles) :
          /\ directory' = dir
          /\ image_files' = list_image_files(dir)
    /\ pc' = "extracting"
    /\ UNCHANGED <<extractVars, idx, clusterVars, refVars, outVars>>

\* lines 114-120: int() raises ValueError, the file is skipped
SkipFile ==
    /\ pc = "extracting"
    /\ idx <= Len(image_files)
    /\ name_invalid(image_files[idx])
    /\ idx' = idx + 1
    /\ UNCHANGED <<pc, extractVars, directory, image_files, clusterVars, refVars, outVars>>

\* line 124: load_image raises, and nothing in process_images catches it
LoadFails ==
    /\ pc = "extracting"
    /\ idx <= Len(image_files)
    /\ ~name_invalid(image_files[idx])
    /\ directory[image_files[idx]] = Corrupt
    /\ pc' = "crashed"
    /\ UNCHANGED <<extractVars, dirVars, clusterVars, refVars, outVars>>

\* mutant: the directions are visited in the order W, S, E, N
tile_signatures_reversed(piece_id, a) ==
    LET m == extract_triangle_regions(a)
        each == [i \in 1 .. 4 |->
                    <<piece_id, Directions[5 - i],
                      extract_pattern_signature(a, m[Directions[5 - i]])>>]
    IN SelectSeq(each, LAMBDA e : e[3] # None)

\* for direction, mask in masks.items(): the signatures of one tile, the
\* null ones left out
tile_signatures(piece_id, a) ==
    LET m == extract_triangle_regions(a)
        each == [i \in 1 .. 4 |->
                    <<piece_id, Directions[i],
                      extract_pattern_signature(a, m[Directions[i]])>>]
    IN SelectSeq(each, LAMBDA e : e[3] # None)

\* lines 113-134: one pass of the extraction loop
ExtractTile ==
    /\ pc = "extracting"
    /\ idx <= Len(image_files)
    /\ ~name_invalid(image_files[idx])
    /\ directory[image_files[idx]] # Corrupt
    /\ all_signatures' = all_signatures \o
          tile_signatures(piece_id_of(image_files[idx]),
                          load_image(directory[image_files[idx]]))
    /\ idx' = idx + 1
    /\ UNCHANGED <<pc, extractVars, directory, image_files, k, pattern_clusters,
                   pattern_mapping, refVars, outVars>>

\* the extraction loop ends
StartClustering ==
    /\ pc = "extracting"
    /\ idx > Len(image_files)
    /\ pc' = "clustering"
    /\ UNCHANGED <<extractVars, dirVars, clusterVars, refVars, outVars>>

\* mutant: the cluster with the nearest first member is taken
first_fit_nearest(sig, clusters) ==
    LET fits == {i \in 1 .. Len(clusters) :
                    below_threshold(compare_signatures(sig, clusters[i][1][3]))}
    IN IF fits = {} THEN 0
       ELSE CHOOSE i \in fits : \A j \in fits :
                compare_signatures(sig, clusters[i][1][3])
                    <= compare_signatures(sig, clusters[j][1][3])

\* lines 149-158: the position of the first cluster whose first member is
\* below the threshold, 0 when the loop ends without a break
first_fit(sig, clusters) ==
    LET fits == {i \in 1 .. Len(clusters) :
                    below_threshold(compare_signatures(sig, clusters[i][1][3]))}
    IN IF fits = {} THEN 0 ELSE CHOOSE i \in fits : \A j \in fits : i <= j

\* mutant: a member that joins a cluster is put in front of it
ClusterStep_recentred ==
    /\ pc = "clustering"
    /\ k <= Len(all_signatures)
    /\ LET member == all_signatures[k]
           found == first_fit(member[3], pattern_clusters)
       IN IF found # 0
          THEN /\ pattern_clusters' =
                    [pattern_clusters EXCEPT ![found] = <<member>> \o @]
               /\ pattern_mapping' =
                    DictPut(pattern_mapping, <<member[1], member[2]>>, found - 1)
          ELSE /\ pattern_clusters' = Append(pattern_clusters, <<member>>)
               /\ pattern_mapping' =
                    DictPut(pattern_mapping, <<member[1], member[2]>>,
                            Len(pattern_clusters))
    /\ k' = k + 1
    /\ UNCHANGED <<pc, extractVars, dirVars, all_signatures, refVars, outVars>>

\* lines 146-164: one pass of the clustering loop
ClusterStep ==
    /\ pc = "clustering"
    /\ k <= Len(all_signatures)
    /\ LET member == all_signatures[k]
           found == first_fit(member[3], pattern_clusters)
       IN IF found # 0
          THEN /\ pattern_clusters' =
                    [pattern_clusters EXCEPT ![found] = Append(@, member)]
               /\ pattern_mapping' =
                    DictPut(pattern_mapping, <<member[1], member[2]>>, found - 1)
          ELSE /\ pattern_clusters' = Append(pattern_clusters, <<member>>)
               /\ pattern_mapping' =
                    DictPut(pattern_mapping, <<member[1], member[2]>>,
                            Len(pattern_clusters))
    /\ k' = k + 1
    /\ UNCHANGED <<pc, extractVars, dirVars, all_signatures, refVars, outVars>>

\* the clustering loop ends
StartAssembling ==
    /\ pc = "clustering"
    /\ k > Len(all_signatures)
    /\ pc' = "assembling"
    /\ UNCHANGED <<extractVars, dirVars, clusterVars, refVars, outVars>>

\* mutant: a missing key reads as pattern 0
edges_of_default_zero(piece_id, mapping) ==
    [i \in 1 .. 4 |-> DictGet(mapping, <<piece_id, Directions[i]>>, 0)]

\* lines 187-192
edges_of(piece_id, mapping) ==
    [i \in 1 .. 4 |-> DictGet(mapping, <<piece_id, Directions[i]>>, -1)]

\* lines 179-195: the loop that fills pieces_data, then the return
Assemble ==
    /\ pc = "assembling"
    /\ pieces_data' =
          [piece_id \in {piece_id_of(image_files[i]) :
                           i \in {j \in 1 .. Len(image_files) :
                                    ~name_invalid(image_files[j])}} |->
              edges_of(piece_id, pattern_mapping)]
    /\ pc' = "saving"
    /\ UNCHANGED <<extractVars, dirVars, clusterVars, refVars, output>>

RECURSIVE ascending_reversed(_)
\* mutant: the keys come out in descending order
ascending_reversed(keys) ==
    IF keys = {} THEN <<>>
    ELSE LET most == CHOOSE x \in keys : \A y \in keys : x >= y
         IN <<most>> \o ascending_reversed(keys \ {most})

RECURSIVE ascending(_)
\* sorted(keys) of distinct integers
ascending(keys) ==
    IF keys = {} THEN <<>>
    ELSE LET least == CHOOSE x \in keys : \A y \in keys : x <= y
         IN <<least>> \o ascending(keys \ {least})

\* f"{piece_id} {edges[0]} {edges[1]} {edges[2]} {edges[3]}\n", without the \n
data_line(piece_id, edges) ==
    str(piece_id) \o <<32>> \o str(edges[1]) \o <<32>> \o str(edges[2])
        \o <<32>> \o str(edges[3]) \o <<32>> \o str(edges[4])

\* the two comment lines (cut after the '#') and the empty line
header == << <<35>>, <<35>>, <<>> >>

\* lines 197-206
save_results(data) ==
    LET keys == ascending(DOMAIN data)
    IN header \o [i \in 1 .. Len(keys) |-> data_line(keys[i], data[keys[i]])]

\* line 222
SaveResults ==
    /\ pc = "saving"
    /\ output' = save_results(pieces_data)
    /\ pc' = "done"
    /\ UNCHANGED <<extractVars, dirVars, clusterVars, refVars, pieces_data>>

NextCluster ==
    \/ ListImages
    \/ SkipFile
    \/ LoadFails
    \/ ExtractTile
    \/ StartClustering
    \/ ClusterStep
    \/ StartAssembling
    \/ Assemble
    \/ SaveResults

SpecCluster == InitCluster /\ [][NextCluster]_vars

-----------------------------------------------------------------------------
(* extract_pieces_with_templates.py: load_reference_forms, find_best_match, *)
(* process_images, save_results                                             *)

\* for form_id in range(1, 23)
LastForm == 22

\* mutant: the border's histogram has the 24 bins of the other program
border_signature_short ==
    LET gray_hist == [i \in 1 .. 24 |-> Scale \div 24]
        gray_mean == [i \in 1 .. 3 |-> (5 * Scale) \div 10]
        gray_std == [i \in 1 .. 3 |-> (5 * Scale) \div 100]
    IN gray_hist \o gray_mean \o gray_std

\* Forme 0: the synthetic signature of the gray border
border_signature ==
    LET gray_hist == [i \in 1 .. 96 |-> Scale \div 96]
        gray_mean == [i \in 1 .. 3 |-> (5 * Scale) \div 10]
        gray_std == [i \in 1 .. 3 |-> (5 * Scale) \div 100]
    IN gray_hist \o gray_mean \o gray_std

\* mutant: every pixel counts as valid
is_not_black_any(a) == Coords(a.height, a.width)

\* is_not_black = np.sum(form_img, axis=2) > 30
is_not_black(a) ==
    {rc \in Coords(a.height, a.width) : a.px[rc][1] + a.px[rc][2] + a.px[rc][3] > 30}

\* lines 127-137: the signature of the valid pixels of a reference image
form_signature(a, pixels) ==
    LET hist_r == histogram(a, pixels, 1, 32)
        hist_g == histogram(a, pixels, 2, 32)
        hist_b == histogram(a, pixels, 3, 32)
        hist == normalize(hist_r \o hist_g \o hist_b)
    IN hist \o mean_color(a, pixels) \o std_color(a, pixels)

\* lines 105-141 for a file that exists: the signature of its valid pixels,
\* None when load_image raises (caught at line 143) or no pixel is valid
signature_of_form(file) ==
    IF file = Corrupt THEN None
    ELSE LET a == load_image_t(file)
             pixels == is_not_black(a)
         IN IF Cardinality(pixels) > 0 THEN form_signature(a, pixels) ELSE None

\* lines 102-144: what one pass of the loop adds to the dict
form_entry(dir, form_id) ==
    IF form_id \in DOMAIN dir
    THEN <<form_id, signature_of_form(dir[form_id])>>
    ELSE <<form_id, None>>

\* the dict it returns, as the list of its items in insertion order: entry 0,
\* then the usable forms in the order of range(1, 23)
load_reference_forms(dir) ==
    << <<0, border_signature>> >> \o
    SelectSeq([form_id \in 1 .. LastForm |-> form_entry(dir, form_id)],
              LAMBDA e : e[2] # None)

RECURSIVE best_from_last_wins(_, _, _, _, _)
\* mutant: the comparison admits equality, so the last of several nearest wins
best_from_last_wins(signature, refs, i, best_match, best_distance) ==
    IF i > Len(refs) THEN best_match
    ELSE LET distance == SquaredDistance(signature, refs[i][2])
         IN IF distance <= best_distance
            THEN best_from_last_wins(signature, refs, i + 1, refs[i][1], distance)
            ELSE best_from_last_wins(signature, refs, i + 1, best_match, best_distance)

RECURSIVE best_from(_, _, _, _, _)
\* the loop of lines 158-163 from item i on
best_from(signature, refs, i, best_match, best_distance) ==
    IF i > Len(refs) THEN best_match
    ELSE LET distance == SquaredDistance(signature, refs[i][2])
         IN IF distance < best_distance
            THEN best_from(signature, refs, i + 1, refs[i][1], distance)
            ELSE best_from(signature, refs, i + 1, best_match, best_distance)

\* mutant: best_distance starts at 0 instead of infinity
find_best_match_zero_start(signature, refs) ==
    IF signature = None THEN -1
    ELSE best_from(signature, refs, 1, -1, 0)

\* mutant: the loop starts at the second entry of the catalog
find_best_match_from_second(signature, refs) ==
    IF signature = None THEN -1
    ELSE best_from(signature, refs, 2, -1, Infinity)

find_best_match(signature, refs) ==
    IF signature = None THEN -1
    ELSE best_from(signature, refs, 1, -1, Infinity)

\* the ids of the reference images that may be present
FormIds == {1, LastForm}

\* the encoded reference images
FormPictures ==
    { Corrupt,
      Picture(8, 8, "black", "black", "black", "black", FALSE),
      Picture(8, 8, "red200", "black", "black", "black", FALSE),
      Picture(8, 8, "blue", "black", "black", "black", FALSE) }

FormDirectories == UNION { [ids -> FormPictures] : ids \in SUBSET FormIds }

\* the encoded tiles the reference-mode directories are filled with
TemplateTiles ==
    { Corrupt,
      Picture(8, 8, "red200", "blue", "dusk", "gray", FALSE),
      Picture(8, 8, "red200", "red200", "red200", "red200", TRUE) }

\* the names of the reference-mode directories
TemplateNames ==
    { <<48, 49>> \o DotPng,                        \* "01.png"
      <<49>> \o DotPng,                            \* "1.png"
      <<49, 48>> \o DotPng,                        \* "10.png"
      <<45, 49>> \o DotPng,                        \* "-1.png"
      <<49, 120, 52>> \o DotPng }                  \* "1x4.png"

TemplateDirectories == Directories(TemplateNames, TemplateTiles)

InitTemplates ==
    /\ pc = "t_loading"
    /\ directory = EmptyDict
    /\ formes = EmptyDict
    /\ reference_signatures = <<>>
    /\ image_files = <<>>
    /\ idx = 1
    /\ all_signatures = <<>>
    /\ k = 1
    /\ pattern_clusters = <<>>
    /\ pattern_mapping = EmptyDict
    /\ pieces_data = EmptyDict
    /\ output = <<>>
    /\ IdleExtract

\* line 228: FORMES_DIR is read
LoadReferenceForms ==
    /\ pc = "t_loading"
    /\ \E dir \in FormDirectories :
          /\ formes' = dir
          /\ reference_signatures' = load_reference_forms(dir)
    /\ pc' = "t_listing"
    /\ UNCHANGED <<extractVars, dirVars, clusterVars, outVars>>

\* line 170: the tile directory is read
ListImages_t ==
    /\ pc = "t_listing"
    /\ \E dir \in TemplateDirectories :
          /\ directory' = dir
          /\ image_files' = list_image_files(dir)
    /\ pc' = "t_processing"
    /\ UNCHANGED <<extractVars, idx, clusterVars, refVars, outVars>>

\* lines 178-182: int() raises ValueError, the file is skipped
SkipFile_t ==
    /\ pc = "t_processing"
    /\ idx <= Len(image_files)
    /\ name_invalid(image_files[idx])
    /\ idx' = idx + 1
    /\ UNCHANGED <<pc, extractVars, directory, image_files, clusterVars, refVars,
                   outVars>>

\* line 185: load_image raises, and nothing in process_images or main catches it
LoadFails_t ==
    /\ pc = "t_processing"
    /\ idx <= Len(image_files)
    /\ ~name_invalid(image_files[idx])
    /\ directory[image_files[idx]] = Corrupt
    /\ pc' = "crashed"
    /\ UNCHANGED <<extractVars, dirVars, clusterVars, refVars, outVars>>

\* line 191, for each direction: the signatures of one tile
tile_signatures_t(a) ==
    LET m == extract_triangle_regions_t(a)
    IN [d \in DirSet |-> extract_pattern_signature_t(a, m[d])]

\* lines 190-193: piece_edges, in the order N, E, S, W
piece_edges(tile_sigs, refs) ==
    [i \in 1 .. 4 |-> find_best_match(tile_sigs[Directions[i]], refs)]

\* mutant: the signature of the tile's north region is added to the catalog
ProcessTile_t_learning ==
    /\ pc = "t_processing"
    /\ idx <= Len(image_files)
    /\ ~name_invalid(image_files[idx])
    /\ directory[image_files[idx]] # Corrupt
    /\ sigs' = [sigs EXCEPT !.templates =
                  tile_signatures_t(load_image_t(directory[image_files[idx]]))]
    /\ pieces_data' =
          DictPut(pieces_data, piece_id_of(image_files[idx]),
                  piece_edges(sigs'.templates, reference_signatures))
    /\ reference_signatures' =
          IF sigs'.templates.N = None THEN reference_signatures
          ELSE Append(reference_signatures, <<LastForm, sigs'.templates.N>>)
    /\ idx' = idx + 1
    /\ UNCHANGED <<pc, img, masks, directory, image_files, clusterVars, formes,
                   output>>

\* lines 177-198: one pass of the loop over image_files
ProcessTile_t ==
    /\ pc = "t_processing"
    /\ idx <= Len(image_files)
    /\ ~name_invalid(image_files[idx])
    /\ directory[image_files[idx]] # Corrupt
    /\ sigs' = [sigs EXCEPT !.templates =
                  tile_signatures_t(load_image_t(directory[image_files[idx]]))]
    /\ pieces_data' =
          DictPut(pieces_data, piece_id_of(image_files[idx]),
                  piece_edges(sigs'.templates, reference_signatures))
    /\ idx' = idx + 1
    /\ UNCHANGED <<pc, img, masks, directory, image_files, clusterVars, refVars,
                   output>>

\* the three comment lines (cut after the '#') and the empty line
header_t == << <<35>>, <<35>>, <<35>>, <<>> >>

\* lines 202-214
save_results_t(data) ==
    LET keys == ascending(DOMAIN data)
    IN header_t \o [i \in 1 .. Len(keys) |-> data_line(keys[i], data[keys[i]])]

\* lines 234-238: process_images returns and the results are saved
SaveResults_t ==
    /\ pc = "t_processing"
    /\ idx > Len(image_files)
    /\ output' = save_results_t(pieces_data)
    /\ pc' = "done"
    /\ UNCHANGED <<extractVars, dirVars, clusterVars, refVars, pieces_data>>

NextTemplates ==
    \/ LoadReferenceForms
    \/ ListImages_t
    \/ SkipFile_t
    \/ LoadFails_t
    \/ ProcessTile_t
    \/ SaveResults_t

SpecTemplates == InitTemplates /\ [][NextTemplates]_vars

\* either program, run on its own
Spec == (InitCluster \/ InitTemplates) /\ [][NextCluster \/ NextTemplates]_vars

-----------------------------------------------------------------------------
(* SpecEndToEnd: extract_pieces.py run on four uniformly coloured tiles of  *)
(* two colours, two tiles per colour.                                       *)

EndToEndNames ==
    { <<49>> \o DotPng,                            \* "1.png"
      <<57>> \o DotPng,                            \* "9.png"
      <<49, 48>> \o DotPng,                        \* "10.png"
      <<45, 49>> \o DotPng }                       \* "-1.png"

EndToEndColours == {"red200", "red215", "red221", "blue", "gray"}

\* the ways to paint the four tiles with two colours, two tiles each
TwoByTwo ==
    {col \in [EndToEndNames -> EndToEndColours] :
        /\ Cardinality({col[f] : f \in EndToEndNames}) = 2
        /\ \A f \in EndToEndNames :
              Cardinality({g \in EndToEndNames : col[g] = col[f]}) = 2}

EndToEndDirectories ==
    { [f \in EndToEndNames |->
          Picture(size[f], size[f], col[f], col[f], col[f], col[f], FALSE)] :
        size \in [EndToEndNames -> {4, MaxDim}], col \in TwoByTwo }

\* line 106: the directory of the four tiles is read
ListImages_e2e ==
    /\ pc = "listing"
    /\ \E dir \in EndToEndDirectories :
          /\ directory' = dir
          /\ image_files' = list_image_files(dir)
    /\ pc' = "extracting"
    /\ UNCHANGED <<extractVars, idx, clusterVars, refVars, outVars>>

NextEndToEnd ==
    \/ ListImages_e2e
    \/ ExtractTile
    \/ StartClustering
    \/ ClusterStep
    \/ StartAssembling
    \/ Assemble
    \/ SaveResults

SpecEndToEnd == InitCluster /\ [][NextEndToEnd]_vars

-----------------------------------------------------------------------------
(* SpecAnyOrder: extract_pieces_with_templates.py with the loop over the    *)
(* tiles taking them in an arbitrary order instead of the sorted one; one   *)
(* pass of the loop stays one step, since a pass shares nothing with the    *)
(* other passes but the catalog it reads and the dict entry it writes.      *)

AnyOrderNames ==
    { <<48, 49>> \o DotPng,                        \* "01.png"
      <<49>> \o DotPng,                            \* "1.png"
      <<49, 48>> \o DotPng }                       \* "10.png"

AnyOrderTiles == TemplateTiles \ {Corrupt}

\* the lists that hold each element of S once
Orders(S) ==
    {order \in [1 .. Cardinality(S) -> S] :
        \A i, j \in 1 .. Cardinality(S) : i # j => order[i] # order[j]}

\* line 170, the tiles then taken in any order
ListImages_t_any_order ==
    /\ pc = "t_listing"
    /\ \E dir \in Directories(AnyOrderNames, AnyOrderTiles) :
          /\ directory' = dir
          /\ image_files' \in Orders({f \in DOMAIN dir : endswith(f, DotPng)})
    /\ pc' = "t_processing"
    /\ UNCHANGED <<extractVars, idx, clusterVars, refVars, outVars>>

NextAnyOrder ==
    \/ LoadReferenceForms
    \/ ListImages_t_any_order
    \/ ProcessTile_t
    \/ SaveResults_t

SpecAnyOrder == InitTemplates /\ [][NextAnyOrder]_vars

-----------------------------------------------------------------------------
(* SpecExtract: segmentation and signature extraction of one image, by the *)
(* functions of both programs.                                             *)

FacePaints ==
    { [N |-> "red200", E |-> "red200", S |-> "red200", W |-> "red200"],
      [N |-> "red200", E |-> "blue", S |-> "dusk", W |-> "black"],
      [N |-> "dawn", E |-> "gray", S |-> "red221", W |-> "red215"] }

TestPictures ==
    { [height |-> h, width |-> w, faces |-> f, dots |-> d] :
        h \in 1 .. MaxDim, w \in 1 .. MaxDim, f \in FacePaints, d \in BOOLEAN }

IdleBatch ==
    /\ directory = EmptyDict
    /\ image_files = <<>>
    /\ idx = 1
    /\ all_signatures = <<>>
    /\ k = 1
    /\ pattern_clusters = <<>>
    /\ pattern_mapping = EmptyDict
    /\ pieces_data = EmptyDict
    /\ output = <<>>
    /\ formes = EmptyDict
    /\ reference_signatures = <<>>

InitExtract ==
    /\ pc = "start"
    /\ img \in TestPictures
    /\ masks = [cluster |-> NoMasks, templates |-> NoMasks]
    /\ sigs = [cluster |-> NoSigs, templates |-> NoSigs]
    /\ IdleBatch

\* masks = extract_triangle_regions(img), in each program
Segment ==
    /\ pc = "start"
    /\ masks' = [cluster |-> extract_triangle_regions(load_image(img)),
                 templates |-> extract_triangle_regions_t(load_image_t(img))]
    /\ pc' = "segmented"
    /\ UNCHANGED <<img, sigs, dirVars, clusterVars, refVars, outVars>>

\* sig = extract_pattern_signature(img, masks[direction]), for each direction
Extract ==
    /\ pc = "segmented"
    /\ sigs' = [cluster |->
                  [d \in DirSet |->
                     extract_pattern_signature(load_image(img), masks.cluster[d])],
                templates |->
                  [d \in DirSet |->
                     extract_pattern_signature_t(load_image_t(img), masks.templates[d])]]
    /\ pc' = "extracted"
    /\ UNCHANGED <<img, masks, dirVars, clusterVars, refVars, outVars>>

NextExtract == Segment \/ Extract

SpecExtract == InitExtract /\ [][NextExtract]_vars

-----------------------------------------------------------------------------
(* Properties of segmentation and signature extraction (SpecExtract) *)

Programs == {"cluster", "templates"}

OnDiagonal(rc) == rc[1] = rc[2] \/ rc[1] + rc[2] = img.height - 1

MasksHolding(p, rc) == {d \in DirSet : rc \in masks[p][d]}

\* C1: for every height and width, the four masks N, E, S, W are pairwise
\* disjoint: no pixel belongs to two masks (in either program).
C1_MasksPairwiseDisjoint ==
    \A p \in Programs : \A d1, d2 \in DirSet :
        d1 # d2 => masks[p][d1] \cap masks[p][d2] = {}

C1_Witness ==
    /\ pc = "segmented"
    /\ img.height # img.width
    /\ \A p \in Programs : \A d \in DirSet : masks[p][d] # {}

\* C2 as stated: for any grid of even height and even width, every pixel off
\* both diagonals belongs to exactly one mask.
C2_Original ==
    (pc # "start" /\ img.height % 2 = 0 /\ img.width % 2 = 0) =>
        \A p \in Programs : \A rc \in Coords(img.height, img.width) :
            ~OnDiagonal(rc) => Cardinality(MasksHolding(p, rc)) = 1

\* C2 amended: for any square grid (height = width), every pixel off both
\* diagonals belongs to exactly one mask.
C2_SquareGridCovered ==
    (pc # "start" /\ img.height = img.width) =>
        \A p \in Programs : \A rc \in Coords(img.height, img.width) :
            ~OnDiagonal(rc) => Cardinality(MasksHolding(p, rc)) = 1

C2_Witness ==
    /\ pc = "segmented"
    /\ img.height = img.width /\ img.height % 2 = 0 /\ img.height >= 4
    /\ \A p \in Programs : \A d \in DirSet : masks[p][d] # {}

\* C3: every pixel on the main diagonal (r - c = 0) or on the anti-diagonal
\* (r - (H-1-c) = 0) belongs to none of the four masks, for every grid size.
C3_DiagonalInNoMask ==
    pc # "start" =>
        \A p \in Programs : \A rc \in Coords(img.height, img.width) :
            OnDiagonal(rc) => MasksHolding(p, rc) = {}

C3_Witness ==
    /\ pc = "segmented"
    /\ img.height >= 3 /\ img.width > img.height
    /\ \E rc \in Coords(img.height, img.width) : rc[1] = rc[2] /\ rc[1] > 0
    /\ \A p \in Programs : \A d \in DirSet : masks[p][d] # {}

\* the pixels of a region that are not below the brightness threshold
NotBelowThreshold(d) ==
    {rc \in masks.templates[d] :
        LET v == load_image_t(img).px[rc] IN v[1] + v[2] + v[3] >= 80}

\* C9 as stated: in both programs the signature is null whenever fewer than
\* 10 pixels survive masking (and, in the reference-mode program, the
\* brightness exclusion).
C9_Original ==
    pc = "extracted" =>
        \A d \in DirSet :
            /\ Cardinality(masks.cluster[d]) < 10 => sigs.cluster[d] = None
            /\ Cardinality(NotBelowThreshold(d)) < 10 => sigs.templates[d] = None

\* C9 amended: the reference-mode extractor returns a null signature whenever
\* fewer than 10 pixels survive masking and brightness exclusion; the
\* cluster-mode extractor has no minimum count and returns a null signature
\* exactly when the masked subset is empty.
C9_NullBelowMinimum ==
    pc = "extracted" =>
        \A d \in DirSet :
            /\ Cardinality(NotBelowThreshold(d)) < 10 => sigs.templates[d] = None
            /\ sigs.cluster[d] = None <=> masks.cluster[d] = {}

C9_Witness ==
    /\ pc = "extracted"
    /\ \E d \in DirSet :
        /\ Cardinality(masks.templates[d]) >= 10
        /\ Cardinality(NotBelowThreshold(d)) \in 1 .. 9
        /\ sigs.templates[d] = None
    /\ \E d \in DirSet :
        /\ Cardinality(masks.cluster[d]) \in 1 .. 9
        /\ sigs.cluster[d] # None

-----------------------------------------------------------------------------
(* Properties of the reference-mode program (SpecTemplates) *)

\* the image file whose pass of the loop has just ended, if any
LastProcessed ==
    IF idx > 1 /\ idx - 1 <= Len(image_files) /\ ~name_invalid(image_files[idx - 1])
    THEN {image_files[idx - 1]}
    ELSE {}

CatalogIds == {reference_signatures[j][1] : j \in 1 .. Len(reference_signatures)}

\* the squared distance from a signature to the catalog's j-th entry
DistanceTo(sig, j) == SquaredDistance(sig, reference_signatures[j][2])

\* C4: find_best_match returns -1 for a null signature; otherwise it returns
\* a catalog id at minimal Euclidean distance from the signature, and among
\* several entries at that minimal distance the lowest id.
C4_BestMatch ==
    \A f \in LastProcessed : \A i \in 1 .. 4 :
        LET sig == sigs.templates[Directions[i]]
            match == pieces_data[piece_id_of(f)][i]
        IN IF sig = None THEN match = -1
           ELSE \E j \in 1 .. Len(reference_signatures) :
                  /\ reference_signatures[j][1] = match
                  /\ \A q \in 1 .. Len(reference_signatures) :
                        /\ DistanceTo(sig, j) <= DistanceTo(sig, q)
                        /\ DistanceTo(sig, j) = DistanceTo(sig, q) =>
                              match <= reference_signatures[q][1]

C4_Witness ==
    \E f \in LastProcessed : \E i \in 1 .. 4 :
        LET sig == sigs.templates[Directions[i]]
            match == pieces_data[piece_id_of(f)][i]
        IN /\ sig # None
           /\ \E j, q \in 1 .. Len(reference_signatures) :
                 /\ reference_signatures[j][1] = match
                 /\ reference_signatures[q][1] > match
                 /\ DistanceTo(sig, j) = DistanceTo(sig, q)
                 /\ \A z \in 1 .. Len(reference_signatures) :
                       DistanceTo(sig, j) <= DistanceTo(sig, z)
           /\ \E z \in 1 .. 4 : sigs.templates[Directions[z]] = None

\* C5: in reference mode, whatever reference images are missing or unusable,
\* every pattern value is -1 or an id present in the catalog, and a region
\* gets -1 if and only if its signature is null.
C5_MatchDefined ==
    /\ \A id \in DOMAIN pieces_data : \A i \in 1 .. 4 :
          pieces_data[id][i] \in CatalogIds \cup {-1}
    /\ \A f \in LastProcessed : \A i \in 1 .. 4 :
          pieces_data[piece_id_of(f)][i] = -1 <=> sigs.templates[Directions[i]] = None
    /\ pc = "done" =>
          \A id \in DOMAIN pieces_data :
              \E n \in 1 .. Len(output) : output[n] = data_line(id, pieces_data[id])

C5_Witness ==
    /\ pc = "done"
    /\ Len(reference_signatures) = 2
    /\ DOMAIN formes = FormIds
    /\ \E id \in DOMAIN pieces_data :
          /\ \E i \in 1 .. 4 : pieces_data[id][i] = -1
          /\ \E i \in 1 .. 4 : pieces_data[id][i] = 0
          /\ \E i \in 1 .. 4 : pieces_data[id][i] > 0
          /\ \E n \in 1 .. Len(output) : output[n] = data_line(id, pieces_data[id])

-----------------------------------------------------------------------------
(* Properties of the cluster-mode program (SpecCluster) *)

\* the 1-based positions of the clusters whose first member is closer to sig
\* than the threshold
Qualifying(sig, clusters) ==
    {i \in 1 .. Len(clusters) :
        SquaredDistance(sig, clusters[i][1][3]) < threshold * threshold}

Least(S) == CHOOSE x \in S : \A y \in S : x <= y

\* C6: each signature, in processing order, joins the lowest-id cluster whose
\* anchor is at distance strictly below the threshold, even if a later
\* cluster's anchor is closer; if there is none, a new cluster is created,
\* its id the number of clusters before, its anchor this signature.
C6_FirstFit ==
    [][(pc = "clustering" /\ k' = k + 1) =>
        LET member == all_signatures[k]
            key == <<member[1], member[2]>>
            fits == Qualifying(member[3], pattern_clusters)
            n == Len(pattern_clusters)
        IN IF fits = {}
           THEN /\ pattern_mapping'[key] = n
                /\ Len(pattern_clusters') = n + 1
                /\ pattern_clusters'[n + 1] = <<member>>
                /\ \A i \in 1 .. n : pattern_clusters'[i] = pattern_clusters[i]
           ELSE /\ pattern_mapping'[key] = Least(fits) - 1
                /\ Len(pattern_clusters') = n
                /\ pattern_clusters'[Least(fits)] =
                      Append(pattern_clusters[Least(fits)], member)
                /\ \A i \in 1 .. n :
                      i # Least(fits) => pattern_clusters'[i] = pattern_clusters[i]
      ]_vars

\* a member sits in a cluster although the anchor of a later cluster, which
\* was there when the member came, is closer to it; and a new cluster was made
C6_Witness ==
    /\ pc = "clustering"
    /\ \E i, j \in 1 .. Len(pattern_clusters) : \E q \in 2 .. Len(pattern_clusters[i]) :
          /\ i < j
          /\ SquaredDistance(pattern_clusters[i][q][3], pattern_clusters[j][1][3])
                < SquaredDistance(pattern_clusters[i][q][3], pattern_clusters[i][1][3])
          /\ \E x, y \in 1 .. k - 1 :
                /\ x < y
                /\ all_signatures[x] = pattern_clusters[j][1]
                /\ all_signatures[y] = pattern_clusters[i][q]

NESW == <<"N", "E", "S", "W">>

Rank(d) == CHOOSE i \in 1 .. 4 : NESW[i] = d

ValidFiles == {j \in 1 .. Len(image_files) : ~name_invalid(image_files[j])}

\* C7 as stated: the signatures are fed in order of ascending numeric tile
\* id, and within one tile in the order N, E, S, W.
C7_Original ==
    \A a, b \in 1 .. Len(all_signatures) :
        a < b =>
            /\ all_signatures[a][1] <= all_signatures[b][1]
            /\ ( /\ all_signatures[a][1] = all_signatures[b][1]
                 /\ Cardinality({j \in ValidFiles :
                        piece_id_of(image_files[j]) = all_signatures[a][1]}) = 1 )
               => Rank(all_signatures[a][2]) < Rank(all_signatures[b][2])

\* what the tile in file f feeds: its non-null signatures in the order N, E, S, W
FeedOf(f) ==
    LET a == load_image(directory[f])
        m == extract_triangle_regions(a)
    IN SelectSeq([i \in 1 .. 4 |->
                    <<piece_id_of(f), NESW[i], extract_pattern_signature(a, m[NESW[i]])>>],
                 LAMBDA e : e[3] # None)

RECURSIVE FeedUpTo(_)
\* what the first j files of image_files feed
FeedUpTo(j) ==
    IF j = 0 THEN <<>>
    ELSE IF name_invalid(image_files[j]) THEN FeedUpTo(j - 1)
    ELSE FeedUpTo(j - 1) \o FeedOf(image_files[j])

\* C7 amended: the signatures are fed in ascending order of file name, compared
\* as strings ("10.png" before "9.png"), and within one file in the order
\* N, E, S, W.
C7_FileNameOrder ==
    /\ \A i, j \in 1 .. Len(image_files) :
          i < j => str_less(image_files[i], image_files[j])
    /\ pc \in {"extracting", "clustering"} => all_signatures = FeedUpTo(idx - 1)

C7_Witness ==
    /\ pc = "clustering"
    /\ \E a, b \in 1 .. Len(all_signatures) :
          a < b /\ all_signatures[a][1] = 10 /\ all_signatures[b][1] = 9

-----------------------------------------------------------------------------
(* Properties of both programs (Spec) *)

\* C8: if a tile image cannot be read or decoded, the remaining tiles are
\* still processed and the output file is still written: no failing tile
\* aborts the batch, in either mode.  (pc = "crashed": the exception of
\* load_image has left process_images and ended the program.)
C8_Original ==
    /\ pc # "crashed"
    /\ pc = "done" => Len(output) > 0

\* the directions of the file f whose region has a null signature
NullRegions(f) ==
    LET a == load_image(directory[f])
        m == extract_triangle_regions(a)
    IN {i \in 1 .. 4 : extract_pattern_signature(a, m[NESW[i]]) = None}

NullNeverClustered ==
    /\ \A n \in 1 .. Len(all_signatures) : all_signatures[n][3] # None
    /\ \A c \in 1 .. Len(pattern_clusters) : \A q \in 1 .. Len(pattern_clusters[c]) :
          /\ pattern_clusters[c][q][3] # None
          /\ ~below_threshold(compare_signatures(None, pattern_clusters[c][1][3]))
    /\ find_best_match(None, reference_signatures) = -1

\* C10 as stated: a region with a null signature is never put into a cluster
\* nor compared, and its (tile id, direction) is reported with -1.
C10_Original ==
    /\ NullNeverClustered
    /\ pc \in {"saving", "done"} =>
          \A j \in ValidFiles : \A i \in NullRegions(image_files[j]) :
              pieces_data[piece_id_of(image_files[j])][i] = -1

\* C10 amended: a region with a null signature is never put into a cluster
\* nor compared, and its (tile id, direction) is reported with -1 unless
\* another file of the directory has the same tile id and a non-null
\* signature for that direction; a null signature raises in neither matcher.
C10_NullUnmatched ==
    /\ NullNeverClustered
    /\ pc \in {"saving", "done"} =>
          \A j \in ValidFiles : \A i \in NullRegions(image_files[j]) :
              \/ pieces_data[piece_id_of(image_files[j])][i] = -1
              \/ \E g \in ValidFiles :
                    /\ g # j
                    /\ piece_id_of(image_files[g]) = piece_id_of(image_files[j])
                    /\ i \notin NullRegions(image_files[g])
    /\ pc = "done" =>
          \A id \in DOMAIN pieces_data :
              \E n \in 1 .. Len(output) : output[n] = data_line(id, pieces_data[id])

C10_Witness ==
    /\ pc = "done"
    /\ \E j \in ValidFiles :
          /\ NullRegions(image_files[j]) \notin {{}, 1 .. 4}
          /\ \A i \in 1 .. 4 :
                pieces_data[piece_id_of(image_files[j])][i] = -1
                    <=> i \in NullRegions(image_files[j])
          /\ \E n \in 1 .. Len(output) :
                output[n] = data_line(piece_id_of(image_files[j]),
                                      pieces_data[piece_id_of(image_files[j])])

-----------------------------------------------------------------------------
(* Properties of the handling of file names (Spec) *)

\* the reference-mode program is the one running (its catalog always holds
\* entry 0 once loaded)
InTemplates == pc \in {"t_loading", "t_listing", "t_processing"} \/ reference_signatures # <<>>

\* the name is an optional sign and one or more decimal digits, then ".png"
NumericStem(f) ==
    LET stem == SubSeq(f, 1, Len(f) - 4)
        digits == IF stem # <<>> /\ stem[1] \in {43, 45} THEN Tail(stem) ELSE stem
    IN /\ digits # <<>>
       /\ \A i \in 1 .. Len(digits) : digits[i] \in 48 .. 57

\* the positions of image_files whose pass of the first loop has ended
Passed == 1 .. (IF idx - 1 <= Len(image_files) THEN idx - 1 ELSE Len(image_files))

\* the tile ids of the numeric names among the positions in `among`
NumericIds(among) ==
    {piece_id_of(image_files[j]) : j \in {i \in among : NumericStem(image_files[i])}}

\* the lines of the output file after the header
DataLines == {n \in 1 .. Len(output) : output[n] # <<>> /\ output[n][1] # 35}

\* C11: a tile file whose name does not parse as an integer is skipped: it
\* contributes no signature and no output line, every other tile file is
\* still processed, and the extraction pass and the assembly pass skip the
\* same files.
C11_InvalidNameSkipped ==
    /\ \A n \in 1 .. Len(all_signatures) : all_signatures[n][1] \in NumericIds(Passed)
    /\ (~InTemplates /\ pc \in {"extracting", "clustering", "assembling"}) =>
          \A j \in Passed :
              (NumericStem(image_files[j]) /\ NullRegions(image_files[j]) # 1 .. 4) =>
                  \E n \in 1 .. Len(all_signatures) :
                      all_signatures[n][1] = piece_id_of(image_files[j])
    /\ (~InTemplates /\ pc \in {"saving", "done"}) =>
          DOMAIN pieces_data = NumericIds(1 .. Len(image_files))
    /\ InTemplates => DOMAIN pieces_data = NumericIds(Passed)
    /\ pc = "done" =>
          /\ Cardinality(DataLines) = Cardinality(NumericIds(1 .. Len(image_files)))
          /\ \A id \in NumericIds(1 .. Len(image_files)) :
                \E n \in DataLines : output[n] = data_line(id, pieces_data[id])

\* a readable picture under a non-numeric name is skipped, and the file
\* that follows it is processed and written
C11_Witness ==
    /\ pc = "done"
    /\ \E i, j \in 1 .. Len(image_files) :
          /\ i < j
          /\ ~NumericStem(image_files[i])
          /\ directory[image_files[i]] # Corrupt
          /\ NumericStem(image_files[j])
          /\ Cardinality(DataLines) = 1
          /\ \E n \in DataLines :
                output[n] = data_line(piece_id_of(image_files[j]),
                                      pieces_data[piece_id_of(image_files[j])])

RECURSIVE StripZeros(_)
\* a string of digits without its leading zeros (one digit is kept)
StripZeros(digits) ==
    IF Len(digits) > 1 /\ digits[1] = 48 THEN StripZeros(Tail(digits)) ELSE digits

\* the numeric name f reads as the integer id: same sign, same digits
ReadsAs(f, id) ==
    LET stem == SubSeq(f, 1, Len(f) - 4)
        signed == stem[1] \in {43, 45}
        digits == StripZeros(IF signed THEN Tail(stem) ELSE stem)
    IN /\ digits = str(IF id < 0 THEN 0 - id ELSE id)
       /\ id < 0 => stem[1] = 45
       /\ (stem[1] = 45 /\ digits # <<48>>) => id < 0

-----------------------------------------------------------------------------
(* Properties of the output file (Spec) *)

RECURSIVE SplitFrom(_, _, _)
\* line.split(' ') from position i on; word is the token being read
SplitFrom(line, i, word) ==
    IF i > Len(line) THEN <<word>>
    ELSE IF line[i] = 32 THEN <<word>> \o SplitFrom(line, i + 1, <<>>)
    ELSE SplitFrom(line, i + 1, Append(word, line[i]))

\* [int(x) for x in line.split(' ')]
ParseLine(line) ==
    LET words == SplitFrom(line, 1, <<>>)
    IN [i \in 1 .. Len(words) |-> int(words[i])]

\* the data lines of the output file, in the order of the file
DataRows == SelectSeq(output, LAMBDA line : line # <<>> /\ line[1] # 35)

\* what is reported for (tile id, direction): in cluster mode the entry of
\* pattern_mapping, -1 without one; in reference mode the tile's record
Reported(id, i) ==
    IF InTemplates THEN pieces_data[id][i]
    ELSE DictGet(pattern_mapping, <<id, NESW[i]>>, -1)

RowsWellFormed ==
    /\ \A n \in 1 .. Len(DataRows) :
          LET row == ParseLine(DataRows[n])
          IN /\ Len(row) = 5
             /\ row[1] \in DOMAIN pieces_data
             /\ \A i \in 1 .. 4 : row[i + 1] = Reported(row[1], i)
    /\ \A n, q \in 1 .. Len(DataRows) :
          n < q => ParseLine(DataRows[n])[1] < ParseLine(DataRows[q])[1]

\* C13 as stated: the output file holds exactly one data line per parsed tile
\* image file, in strictly ascending tile-id order, each line the tile id
\* followed by the north, east, south and west values.
C13_Original ==
    pc = "done" =>
        /\ Len(DataRows) = Cardinality(ValidFiles)
        /\ RowsWellFormed

\* C13 amended: the output file holds exactly one data line per distinct tile
\* id parsed from the file names (files that parse to the same id, as 01.png
\* and 1.png, share one line), in strictly ascending numeric tile-id order,
\* each line the tile id followed by the north, east, south and west values.
C13_OneLinePerTileId ==
    pc = "done" =>
        /\ Len(DataRows) = Cardinality(NumericIds(1 .. Len(image_files)))
        /\ \A id \in NumericIds(1 .. Len(image_files)) :
              \E n \in 1 .. Len(DataRows) : ParseLine(DataRows[n])[1] = id
        /\ RowsWellFormed

\* two lines written in the order 9, 10 for files listed in the order
\* 10.png, 9.png, with values that tell the four columns apart
C13_Witness ==
    /\ pc = "done"
    /\ Len(DataRows) = 2
    /\ Len(image_files) = 2
    /\ piece_id_of(image_files[1]) > piece_id_of(image_files[2])
    /\ \E n \in 1 .. 2 :
          Cardinality({ParseLine(DataRows[n])[i + 1] : i \in 1 .. 4}) >= 3

-----------------------------------------------------------------------------
(* Properties of the reference catalog (SpecTemplates) *)

\* the reference image form_id is there, decodes, and has a pixel that is
\* not part of the black background
Usable(form_id) ==
    /\ form_id \in DOMAIN formes
    /\ formes[form_id] # Corrupt
    /\ \E rc \in Coords(formes[form_id].height, formes[form_id].width) :
          LET v == load_image_t(formes[form_id]).px[rc] IN v[1] + v[2] + v[3] > 30

\* C14: a reference image that is missing, unreadable or without valid pixels
\* is omitted from the catalog; building the catalog never fails, entry 0 (the
\* synthetic border) is always present, the catalog ids are a subset of
\* 0..22, and the tiles are then matched against the reduced catalog.
C14_CatalogBuilt ==
    /\ pc # "t_loading" =>
          /\ Len(reference_signatures) >= 1
          /\ reference_signatures[1] = <<0, border_signature>>
          /\ CatalogIds \subseteq 0 .. 22
          /\ \A i, j \in 1 .. Len(reference_signatures) :
                i < j => reference_signatures[i][1] < reference_signatures[j][1]
          /\ \A form_id \in 1 .. 22 : form_id \in CatalogIds <=> Usable(form_id)
          /\ \A j \in 1 .. Len(reference_signatures) : reference_signatures[j][2] # None
    /\ pc = "t_loading" => ENABLED LoadReferenceForms
    /\ \A f \in LastProcessed : \A i \in 1 .. 4 :
          pieces_data[piece_id_of(f)][i] \in CatalogIds \cup {-1}

\* one reference image is unreadable, the other has only background, and a
\* tile has been matched against the catalog that is left (entry 0 alone)
C14_Witness ==
    /\ pc = "done"
    /\ DOMAIN formes = FormIds
    /\ \E a, b \in FormIds :
          /\ formes[a] = Corrupt
          /\ formes[b] # Corrupt /\ ~Usable(b)
    /\ CatalogIds = {0}
    /\ \E id \in DOMAIN pieces_data : \E i \in 1 .. 4 : pieces_data[id][i] = 0

-----------------------------------------------------------------------------
(* Properties of the clustering as a whole (SpecCluster) *)

RECURSIVE IdsUpTo(_, _)
\* the cluster ids of the first n signatures of feed, as a function of their
\* order and of the threshold alone: a signature takes the id of the earliest
\* anchor closer than the threshold, or else the number of anchors so far
IdsUpTo(feed, n) ==
    IF n = 0 THEN <<>>
    ELSE LET prev == IdsUpTo(feed, n - 1)
             anchors == {p \in 1 .. n - 1 : \A q \in 1 .. p - 1 : prev[q] # prev[p]}
             near == {p \in anchors :
                        SquaredDistance(feed[n][3], feed[p][3]) < threshold * threshold}
         IN Append(prev, IF near = {} THEN Cardinality(anchors) ELSE prev[Least(near)])

Greatest(S) == CHOOSE x \in S : \A y \in S : x >= y

\* the table a feed leads to: for each tile id and direction the id given to
\* the last signature fed under that key, -1 when none was fed
TableOf(feed, tile_ids) ==
    LET ids == IdsUpTo(feed, Len(feed))
    IN [id \in tile_ids |->
          [i \in 1 .. 4 |->
              LET hits == {n \in 1 .. Len(feed) : feed[n][1] = id /\ feed[n][2] = NESW[i]}
              IN IF hits = {} THEN -1 ELSE ids[Greatest(hits)]]]

\* C15: the table of pattern assignments is a function of the directory
\* contents alone: every run over the same directory ends with the same
\* table, the signatures being a function of the pixels, and the cluster ids
\* a function of the processing order, the non-null signatures and the
\* threshold.
C15_TableIsFunctionOfDirectory ==
    /\ pc \in {"clustering", "assembling", "saving", "done"} =>
          /\ image_files = list_image_files(directory)
          /\ all_signatures = FeedUpTo(Len(image_files))
    /\ pc \in {"clustering", "assembling"} =>
          LET ids == IdsUpTo(all_signatures, k - 1)
          IN \A n \in 1 .. k - 1 :
                \E c \in 1 .. Len(pattern_clusters) :
                    /\ c = ids[n] + 1
                    /\ \E q \in 1 .. Len(pattern_clusters[c]) :
                          pattern_clusters[c][q] = all_signatures[n]
    /\ pc \in {"saving", "done"} =>
          pieces_data = TableOf(FeedUpTo(Len(image_files)),
                                NumericIds(1 .. Len(image_files)))

\* a run has ended with three clusters over two tiles, one of the clusters
\* with several members, and a region left unmatched
C15_Witness ==
    /\ pc = "done"
    /\ Len(pattern_clusters) = 3
    /\ \E c \in 1 .. 3 : Len(pattern_clusters[c]) >= 2
    /\ Cardinality(DOMAIN pieces_data) = 2
    /\ \E id \in DOMAIN pieces_data : \E i \in 1 .. 4 : pieces_data[id][i] = -1

\* the signatures clustered so far are all the same signature
SameSignatureFed ==
    /\ k > 1
    /\ \A n \in 1 .. k - 1 : all_signatures[n][3] = all_signatures[1][3]

\* C16: feeding the same non-null signature N times in a row to the
\* clustering loop yields exactly one cluster, and it has exactly N members.
C16_SameSignatureOneCluster ==
    (pc \in {"clustering", "assembling", "saving", "done"} /\ SameSignatureFed) =>
        /\ all_signatures[1][3] # None
        /\ Len(pattern_clusters) = 1
        /\ Len(pattern_clusters[1]) = k - 1
        /\ \A n \in 1 .. k - 1 :
              pattern_mapping[<<all_signatures[n][1], all_signatures[n][2]>>] = 0

\* the same signature has been fed eight times, from two tiles
C16_Witness ==
    /\ pc = "assembling"
    /\ SameSignatureFed
    /\ k - 1 = 8
    /\ Cardinality({all_signatures[n][1] : n \in 1 .. k - 1}) = 2
    /\ Len(pattern_clusters[1]) = 8

-----------------------------------------------------------------------------
(* Round trip of the output file (Spec) *)

\* every token of the line is an integer literal
LineParses(line) ==
    LET words == SplitFrom(line, 1, <<>>)
    IN \A i \in 1 .. Len(words) : int_parses(words[i])

\* the tuples (tile_id, N, E, S, W) held in memory
TuplesInMemory ==
    {<<id, pieces_data[id][1], pieces_data[id][2], pieces_data[id][3],
       pieces_data[id][4]>> : id \in DOMAIN pieces_data}

\* the tuples read back from the data lines of the file
TuplesInFile == {ParseLine(DataRows[n]) : n \in 1 .. Len(DataRows)}

\* C17: re-parsing the data lines written by save_results gives back exactly
\* the tuples (tile_id, N, E, S, W) held in memory: none lost, none
\* duplicated, none altered, the columns in the same order.
C17_RoundTrip ==
    pc = "done" =>
        /\ \A n \in 1 .. Len(DataRows) : LineParses(DataRows[n])
        /\ TuplesInFile = TuplesInMemory
        /\ Len(DataRows) = Cardinality(TuplesInMemory)
        /\ [id \in {ParseLine(DataRows[n])[1] : n \in 1 .. Len(DataRows)} |->
              LET row == ParseLine(DataRows[
                            CHOOSE n \in 1 .. Len(DataRows) : ParseLine(DataRows[n])[1] = id])
              IN <<row[2], row[3], row[4], row[5]>>] = pieces_data

\* two tuples were written and read back, with a negative tile id, the
\* sentinel -1 and a pattern id above 0 among the values
C17_Witness ==
    /\ pc = "done"
    /\ Cardinality(TuplesInMemory) = 2
    /\ \E t \in TuplesInFile : t[1] < 0
    /\ \E t \in TuplesInFile : \E i \in 2 .. 5 : t[i] = -1
    /\ \E t \in TuplesInFile : \E i \in 2 .. 5 : t[i] > 0

-----------------------------------------------------------------------------
(* End to end, cluster mode (SpecEndToEnd) *)

\* the colour the tile in file f is painted with
ColourOf(f) == directory[f].faces.N

\* the signature of a region painted with the colour of file f
ColourSignature(f) ==
    LET a == load_image(directory[f]) IN signature_vector(a, mask_north(a))

\* the threshold is below the distance between the signatures of the two
\* colours in the directory
ThresholdSeparates ==
    \A f, g \in DOMAIN directory :
        ColourOf(f) # ColourOf(g) =>
            SquaredDistance(ColourSignature(f), ColourSignature(g))
                > threshold * threshold

\* the pattern values the output file shows
ValuesShown == {ParseLine(DataRows[n])[i] : n \in 1 .. Len(DataRows), i \in 2 .. 5}

\* the output line of the tile in file f, parsed
RowOf(f) ==
    ParseLine(DataRows[CHOOSE n \in 1 .. Len(DataRows) :
                          ParseLine(DataRows[n])[1] = piece_id_of(f)])

\* C18: for four tiles, each uniformly painted with one of two colours, two
\* tiles per colour, and a threshold below the distance between the two
\* colours' signatures, the output shows exactly two distinct pattern ids,
\* and the four directions of all tiles of one colour carry the same id.
C18_TwoColoursTwoIds ==
    (pc = "done" /\ ThresholdSeparates) =>
        /\ Len(DataRows) = 4
        /\ Cardinality(ValuesShown) = 2
        /\ \A f, g \in DOMAIN directory : \A i, j \in 2 .. 5 :
              RowOf(f)[i] = RowOf(g)[j] <=> ColourOf(f) = ColourOf(g)

\* the two colours alternate in processing order and the tiles differ in size
C18_Witness ==
    /\ pc = "done"
    /\ ThresholdSeparates
    /\ Len(image_files) = 4
    /\ ColourOf(image_files[1]) # ColourOf(image_files[2])
    /\ ColourOf(image_files[1]) = ColourOf(image_files[3])
    /\ directory[image_files[1]].height # directory[image_files[3]].height
    /\ ValuesShown = {0, 1}

-----------------------------------------------------------------------------
(* Self-consistency of the reference catalog (SpecTemplates) *)

\* the ids of the catalog entries that hold the signature sig
HoldersOf(sig) ==
    {reference_signatures[j][1] :
        j \in {q \in 1 .. Len(reference_signatures) : reference_signatures[q][2] = sig}}

\* C19 as stated: for every id in a built catalog, matching the signature
\* stored for it against that catalog returns that id.
C19_Original ==
    pc # "t_loading" =>
        \A j \in 1 .. Len(reference_signatures) :
            find_best_match(reference_signatures[j][2], reference_signatures)
                = reference_signatures[j][1]

\* C19 amended: for every id in a built catalog, the signature stored for it
\* is at distance 0 from its own entry, and matching it against that catalog
\* returns the lowest id whose stored signature is the same: the id itself
\* when no entry with a lower id holds an equal signature.
C19_SelfConsistent ==
    /\ pc # "t_loading" =>
          \A j \in 1 .. Len(reference_signatures) :
              /\ DistanceTo(reference_signatures[j][2], j) = 0
              /\ find_best_match(reference_signatures[j][2], reference_signatures)
                    = Least(HoldersOf(reference_signatures[j][2]))
    /\ \A f \in LastProcessed : \A i \in 1 .. 4 :
          HoldersOf(sigs.templates[Directions[i]]) # {} =>
              pieces_data[piece_id_of(f)][i] = Least(HoldersOf(sigs.templates[Directions[i]]))

\* a catalog of three entries with three different signatures, and a tile
\* region whose signature is the one stored for id 22 was matched to 22
C19_Witness ==
    /\ Len(reference_signatures) = 3
    /\ \A i, j \in 1 .. 3 :
          i # j => reference_signatures[i][2] # reference_signatures[j][2]
    /\ \E f \in LastProcessed : \E i \in 1 .. 4 :
          /\ sigs.templates[Directions[i]] = reference_signatures[3][2]
          /\ pieces_data[piece_id_of(f)][i] = 22

-----------------------------------------------------------------------------
(* Frame of a clustering step (SpecCluster) *)

\* the step appends the member to exactly one cluster that exists, or appends
\* one new cluster holding the member alone; nothing else is touched
OneAppend(member) ==
    LET n == Len(pattern_clusters)
    IN \/ /\ Len(pattern_clusters') = n
          /\ \E c \in 1 .. n :
                /\ pattern_clusters'[c] = Append(pattern_clusters[c], member)
                /\ \A d \in 1 .. n : d # c => pattern_clusters'[d] = pattern_clusters[d]
       \/ /\ Len(pattern_clusters') = n + 1
          /\ pattern_clusters'[n + 1] = <<member>>
          /\ \A d \in 1 .. n : pattern_clusters'[d] = pattern_clusters[d]

\* the anchors stay, and what a cluster held stays at the same positions
AnchorsKept ==
    \A c \in 1 .. Len(pattern_clusters) :
        /\ pattern_clusters'[c][1] = pattern_clusters[c][1]
        /\ SubSeq(pattern_clusters'[c], 1, Len(pattern_clusters[c])) = pattern_clusters[c]

\* the assignments of the keys in `keys` are as they were
AssignmentsKept(keys) ==
    \A key \in keys : key \in DOMAIN pattern_mapping' /\ pattern_mapping'[key] = pattern_mapping[key]

\* C20 as stated: a clustering step appends one member to one existing cluster
\* or appends one new singleton cluster, never touches an anchor nor removes
\* or reorders a member, and leaves every other cluster and every earlier
\* pattern assignment unchanged.
C20_Original ==
    [][IF pc = "clustering" /\ k' = k + 1
       THEN /\ OneAppend(all_signatures[k])
            /\ AnchorsKept
            /\ AssignmentsKept(DOMAIN pattern_mapping)
       ELSE pattern_clusters' = pattern_clusters /\ pattern_mapping' = pattern_mapping
      ]_vars

\* C20 amended: a clustering step appends one member to one existing cluster
\* or appends one new singleton cluster, never touches an anchor nor removes
\* or reorders a member, and leaves every other cluster unchanged and every
\* earlier pattern assignment unchanged except the one recorded under the
\* step's own (tile id, direction), which it overwrites when an earlier file
\* parsed to the same tile id; no other step changes clusters or assignments.
C20_AppendOnly ==
    [][IF pc = "clustering" /\ k' = k + 1
       THEN /\ OneAppend(all_signatures[k])
            /\ AnchorsKept
            /\ AssignmentsKept(DOMAIN pattern_mapping
                                  \ {<<all_signatures[k][1], all_signatures[k][2]>>})
            /\ DOMAIN pattern_mapping' =
                  DOMAIN pattern_mapping \cup {<<all_signatures[k][1], all_signatures[k][2]>>}
       ELSE pattern_clusters' = pattern_clusters /\ pattern_mapping' = pattern_mapping
      ]_vars

\* clusters have grown past their anchors, and a (tile id, direction) fed
\* twice sits in two clusters, the mapping holding the later one
C20_Witness ==
    /\ pc = "clustering"
    /\ Len(pattern_clusters) >= 2
    /\ \E c \in 1 .. Len(pattern_clusters) :
          Len(pattern_clusters[c]) >= 2 /\ pattern_clusters[c][1] = all_signatures[1]
    /\ \E x, y \in 1 .. k - 1 :
          /\ x < y
          /\ all_signatures[x][1] = all_signatures[y][1]
          /\ all_signatures[x][2] = all_signatures[y][2]
          /\ \E c, d \in 1 .. Len(pattern_clusters) :
                /\ c # d
                /\ \E q \in 1 .. Len(pattern_clusters[c]) :
                      pattern_clusters[c][q] = all_signatures[x]
                /\ \E q \in 1 .. Len(pattern_clusters[d]) :
                      pattern_clusters[d][q] = all_signatures[y]
                /\ pattern_mapping[<<all_signatures[y][1], all_signatures[y][2]>>] = d - 1

-----------------------------------------------------------------------------
(* Order independence of reference-mode matching (SpecAnyOrder) *)

\* what the tile in file f is assigned: a function of its pixels and of the
\* catalog
AssignmentOf(f) ==
    piece_edges(tile_signatures_t(load_image_t(directory[f])), reference_signatures)

\* the positions in image_files of the files that parse to the tile id
FilesOf(id) ==
    {j \in 1 .. Len(image_files) :
        NumericStem(image_files[j]) /\ piece_id_of(image_files[j]) = id}

\* the file, among those that parse to the tile id, that sorted() lists last
LastSorted(id) ==
    image_files[CHOOSE j \in FilesOf(id) :
                   \A q \in FilesOf(id) \ {j} : str_less(image_files[q], image_files[j])]

CatalogUntouched ==
    pc \notin {"t_loading"} => reference_signatures = load_reference_forms(formes)

-----------------------------------------------------------------------------
(* Lengths of the signatures (Spec) *)

\* 3 * bins + 3, and 3 more with the standard deviation
LengthFor(bins, with_std) == 3 * bins + 3 + (IF with_std THEN 3 ELSE 0)

\* C22: every non-null signature of one program has the same length
\* 3 * bins + 3 (+ 3 with the standard deviation): 27 in cluster mode, 102 in
\* reference mode; every catalog entry, the synthetic entry 0 included, has
\* length 102, so find_best_match always compares vectors of equal length.
C22_SignatureLengths ==
    /\ LengthFor(8, FALSE) = 27 /\ LengthFor(32, TRUE) = 102
    /\ \A n \in 1 .. Len(all_signatures) : Len(all_signatures[n][3]) = 27
    /\ \A c \in 1 .. Len(pattern_clusters) : \A q \in 1 .. Len(pattern_clusters[c]) :
          Len(pattern_clusters[c][q][3]) = 27
    /\ \A d \in DirSet :
          /\ sigs.cluster[d] # None => Len(sigs.cluster[d]) = 27
          /\ sigs.templates[d] # None => Len(sigs.templates[d]) = 102
    /\ \A j \in 1 .. Len(reference_signatures) : Len(reference_signatures[j][2]) = 102
    /\ \A d \in DirSet : \A j \in 1 .. Len(reference_signatures) :
          sigs.templates[d] # None =>
              DOMAIN sigs.templates[d] = DOMAIN reference_signatures[j][2]

\* a tile's signatures have been compared with a catalog that holds the
\* border entry and two reference images
C22_Witness ==
    /\ pc = "t_processing"
    /\ Len(reference_signatures) = 3
    /\ reference_signatures[1][1] = 0
    /\ \E d \in DirSet : sigs.templates[d] # None
    /\ \E id \in DOMAIN pieces_data : \E i \in 1 .. 4 : pieces_data[id][i] > 0

-----------------------------------------------------------------------------
(* The brightness exclusion at its threshold (SpecExtract) *)

\* C23: with the brightness exclusion, a masked pixel is dropped if and only
\* if R+G+B is strictly below 80; a pixel whose sum is exactly 80 is kept and
\* counts toward the minimum of 10 pixels, so a region has a signature exactly
\* when at least 10 of its pixels have a sum of 80 or more.
C23_Original ==
    pc = "extracted" =>
        \A d \in DirSet :
            sigs.templates[d] # None <=> Cardinality(NotBelowThreshold(d)) >= 10

-----------------------------------------------------------------------------
(* Invariants of the clusters (SpecCluster) *)

\* the signature of the anchor (first member) of cluster c
AnchorOf(c) == pattern_clusters[c][1][3]

\* the two signatures are at a distance of the threshold or more
Apart(s1, s2) == SquaredDistance(s1, s2) >= threshold * threshold

\* C24: after any sequence of clustering steps, the anchors of two distinct
\* clusters are at distance >= T from each other, and every non-anchor member
\* of a cluster is at distance < T from its anchor and at distance >= T from
\* the anchor of every cluster with a lower id.
C24_AnchorDistances ==
    /\ \A c, d \in 1 .. Len(pattern_clusters) :
          c # d => Apart(AnchorOf(c), AnchorOf(d))
    /\ \A c \in 1 .. Len(pattern_clusters) : \A q \in 2 .. Len(pattern_clusters[c]) :
          /\ ~Apart(pattern_clusters[c][q][3], AnchorOf(c))
          /\ \A d \in 1 .. c - 1 : Apart(pattern_clusters[c][q][3], AnchorOf(d))

\* three clusters, a member of the first that differs from its anchor, and
\* a non-anchor member in the second
C24_Witness ==
    /\ pc = "clustering"
    /\ Len(pattern_clusters) = 3
    /\ \E q \in 2 .. Len(pattern_clusters[1]) : pattern_clusters[1][q][3] # AnchorOf(1)
    /\ Len(pattern_clusters[2]) >= 2

\* the number of members of the first c clusters
MembersUpTo(c) ==
    SumRange([i \in 1 .. Len(pattern_clusters) |-> Len(pattern_clusters[i])], 1, c)

\* the position in all_signatures at which the anchor of cluster c was fed
FedAt(c) ==
    Least({n \in 1 .. Len(all_signatures) : all_signatures[n] = pattern_clusters[c][1]})

\* C25: after every clustering step the cluster ids are 0..n-1 in creation
\* order, no cluster is empty, the clusters hold as many members as non-null
\* signatures were processed, and every value of pattern_mapping is the id
\* of an existing cluster that holds a member with the key's (tile id,
\* direction).
C25_ClusterIds ==
    pc \in {"clustering", "assembling", "saving", "done"} =>
        /\ \A c \in 1 .. Len(pattern_clusters) : Len(pattern_clusters[c]) >= 1
        /\ \A c, d \in 1 .. Len(pattern_clusters) : c < d => FedAt(c) < FedAt(d)
        /\ MembersUpTo(Len(pattern_clusters)) = k - 1
        /\ \A n \in 1 .. k - 1 : all_signatures[n][3] # None
        /\ \A key \in DOMAIN pattern_mapping :
              /\ pattern_mapping[key] \in 0 .. Len(pattern_clusters) - 1
              /\ \E q \in 1 .. Len(pattern_clusters[pattern_mapping[key] + 1]) :
                    LET member == pattern_clusters[pattern_mapping[key] + 1][q]
                    IN <<member[1], member[2]>> = key
        /\ \A id \in DOMAIN pieces_data : \A i \in 1 .. 4 :
              pieces_data[id][i] \in -1 .. Len(pattern_clusters) - 1

\* eight signatures in three clusters, under fewer than eight keys
C25_Witness ==
    /\ pc = "clustering"
    /\ k - 1 = 8
    /\ Len(pattern_clusters) = 3
    /\ Cardinality(DOMAIN pattern_mapping) < 8
    /\ \E c \in 1 .. 3 : Len(pattern_clusters[c]) = 1

-----------------------------------------------------------------------------
(* Sizes of the masks on even squares (SpecExtract) *)

\* the pixels selected by the signs of the two diagonal distances alone
DiagonalPair(d) ==
    {rc \in Coords(img.height, img.width) :
        LET main == rc[1] - rc[2]
            anti == rc[1] - (img.height - 1 - rc[2])
        IN CASE d = "N" -> main < 0 /\ anti < 0
             [] d = "E" -> main < 0 /\ anti > 0
             [] d = "S" -> main > 0 /\ anti > 0
             [] d = "W" -> main > 0 /\ anti < 0}

EvenSquare == img.height = img.width /\ img.height % 2 = 0

\* C26: on every even square H x H grid each of the four masks has exactly
\* H * (H - 2) / 4 pixels and exactly 2 * H pixels are in no mask; the
\* half-plane tests are implied by the two diagonal sign tests, so each mask
\* is the set its pair of diagonal signs selects.
C26_MaskSizes ==
    (pc # "start" /\ EvenSquare) =>
        \A p \in Programs :
            /\ \A d \in DirSet :
                  /\ Cardinality(masks[p][d]) = (img.height * (img.height - 2)) \div 4
                  /\ masks[p][d] = DiagonalPair(d)
            /\ Cardinality(Coords(img.height, img.width)
                              \ UNION {masks[p][d] : d \in DirSet}) = 2 * img.height

\* an 8 x 8 image has been segmented: 12 pixels in each mask, 16 in none
C26_Witness ==
    /\ pc = "segmented"
    /\ img.height = 8 /\ img.width = 8
    /\ \A p \in Programs : \A d \in DirSet : Cardinality(masks[p][d]) = 12

====
